---- MODULE Spec2Model ----
(***************************************************************************)
(* The user-book association service of NextChapterAi                      *)
(* (src/api/database/services/usersBooks.service.ts) over the users_books  *)
(* table (src/unnamed/part_000), the books table and the metadata          *)
(* provider.  Every request is a call that runs from one await to the      *)
(* next; calls of different requests interleave at the awaits.             *)
(***************************************************************************)
EXTENDS Integers, Sequences, FiniteSets, TLC

\* ------------------------------------------------------------------ bounds
MaxCalls == 3          \* calls started in one behaviour
MaxWideCalls == 2      \* the same, for the callers that pass every input
MaxTime  == 1          \* the clock runs over 0..MaxTime
MaxFetchCalls == 2     \* useMyFetch calls started in one behaviour
MaxRounds == 2         \* refresh-and-retry rounds of one call that are counted

\* ------------------------------------------------- constants of the program
RatingMin  == 1        \* users_books.userRating validate.min
RatingMax  == 10       \* users_books.userRating validate.max
NotesMin   == 1        \* users_books.userNotes validate.len[0]
NotesMax   == 1000     \* users_books.userNotes validate.len[1]
AddRatingLimit == 10   \* addBookToUser: userRating > 10
UpdRatingLow   == 1    \* updateUserBook: userRating < 1
UpdRatingHigh  == 10   \* updateUserBook: userRating > 10

\* --------------------------------------------------------- optional values
\* null / undefined is the empty set, a present value v is {v}
NULL      == {}
Some(v)   == {v}
Val(o)    == CHOOSE v \in o : TRUE

\* ------------------------------------------------------------ input domains
Procs      == {1, 2}                 \* request slots
BookIds    == {1, 2}                 \* the Book rows that exist
MissingBookId == Cardinality(BookIds) + 1   \* an id no Book row has
AssocIds   == 1 .. MaxCalls          \* association ids a caller may name
Times      == 0 .. MaxTime
RECURSIVE Repeat(_, _)
Repeat(ch, n) ==
    IF n = 0 THEN ""
    ELSE IF n % 2 = 1 THEN ch \o Repeat(ch, n - 1)
    ELSE LET half == Repeat(ch, n \div 2) IN half \o half
LongNote   == Repeat("x", NotesMax + 1)   \* notes one character too long
RatingArgs == {NULL, Some(0 - 1), Some(0), Some(5), Some(11)}
DateArgs   == {NULL} \cup {Some(t) : t \in Times}
NoteArgs   == {NULL, Some(""), Some("a"), Some(LongNote)}

Input(r, ds, df, n, imp) ==
    [userRating |-> r, dateStarted |-> ds, dateFinished |-> df,
     userNotes |-> n, importBook |-> imp]

\* every combination of rating, dates and notes
AllInputs ==
    {Input(r, ds, df, n, FALSE) : r \in RatingArgs, ds \in DateArgs, df \in DateArgs,
                                  n \in NoteArgs}

\* a few argument vectors: all omitted, all given and valid, a zero rating with
\* empty notes, and one per rejection (rating above 10, rating below 1, future start)
FewInputs ==
    { Input(NULL, NULL, NULL, NULL, FALSE),
      Input(Some(5), Some(0), Some(MaxTime), Some("a"), TRUE),
      Input(Some(0), NULL, NULL, Some(""), FALSE),
      Input(Some(11), NULL, NULL, NULL, FALSE),
      Input(Some(0 - 1), NULL, NULL, NULL, FALSE),
      Input(NULL, Some(MaxTime), NULL, NULL, FALSE) }

\* the callers of a specification: the slots they use, whether their calls
\* overlap, what they pass and how many calls they make
Concurrent == [slots |-> {1, 2}, overlap |-> TRUE, users |-> {1, 2},
               books |-> {1, MissingBookId}, ids |-> {1, 2},
               inputs |-> {in \in FewInputs : in.userRating = NULL},
               calls |-> MaxCalls]
Sequential == [slots |-> {1, 2}, overlap |-> FALSE, users |-> {1, 2},
               books |-> BookIds \cup {MissingBookId}, ids |-> AssocIds,
               inputs |-> FewInputs, calls |-> MaxCalls]
Single     == [slots |-> {1}, overlap |-> FALSE, users |-> {1},
               books |-> {1, MissingBookId}, ids |-> {1, 2},
               inputs |-> AllInputs, calls |-> MaxWideCalls]

\* metadata blobs: a cached blob is null, or a record with a (possibly empty) title
NoTitle    == Some([title |-> ""])
Titled     == Some([title |-> "T"])
ProviderResponses == {NoTitle, Titled}

\* error messages of the service and of the model's validators
ErrRating    == "User rating must be between 1 and 10"
ErrDateOrder == "Date started must be before date finished"
ErrDateFuture == "Date started must be in the past"
ErrNoBook    == "Book does not exist"
ErrNoUserBook == "Book not found for this user"
ErrNotFound  == "Book not found"
ErrModel     == "Validation error"
ErrProvider  == "provider failure"
ErrStore     == "store failure"

VARIABLES
    books,      \* books table: id -> cached bookDetails
    rows,       \* users_books table: set of rows
    nextId,     \* users_books autoincrement
    now,        \* the clock new Date() reads
    call,       \* per request slot: the call it runs, its locals and its result
    ncalls,     \* calls started so far
    fetchCall   \* the client's useMyFetch call: its locals and its result

vars == <<books, rows, nextId, now, call, ncalls, fetchCall>>

NoCall ==
    [op |-> "none", pc |-> "idle", userId |-> 0, bookId |-> 0,
     userRating |-> NULL, dateStarted |-> NULL, dateFinished |-> NULL,
     userNotes |-> NULL, importBook |-> FALSE,
     found |-> NULL, outcome |-> "none", ret |-> NULL, tasks |-> <<>>,
     fetches |-> 0, rows0 |-> {}, books0 |-> <<>>, seq |-> 0, at |-> 0]

\* no useMyFetch call yet
NoFetch ==
    [pc |-> "idle", client |-> FALSE, useAuthHeader |-> FALSE, token |-> NULL,
     rounds |-> 0, outcome |-> "none", loggedOut |-> FALSE, n |-> 0]

\* a call is active while it has not returned or one of its refreshes is in flight
TaskOpen(t) == t.st \in {"fetch", "write"}
Active(c)   == c.pc \notin {"idle", "done"}
               \/ \E i \in DOMAIN c.tasks : TaskOpen(c.tasks[i])

\* the catalogue at the start: Book 1 has no cached metadata yet, the others have
\* cached metadata without a title (the two cases the list's refresh test
\* names); no association exists
Init ==
    /\ books = [b \in BookIds |-> IF b = 1 THEN NULL ELSE NoTitle]
    /\ rows = {}
    /\ nextId = 1
    /\ now = 0
    /\ call = [p \in Procs |-> NoCall]
    /\ ncalls = 0
    /\ fetchCall = NoFetch

\* ------------------------------------------------------------ store helpers
\* UsersBooks.findOne({ where: { userId, bookId } })
FindByUserBook(u, b) == {r \in rows : r.userId = u /\ r.bookId = b}
\* the lookup without its userId condition
FindByUserId_AnyUser(u, i) == {r \in rows : r.id = i}
\* UsersBooks.findOne({ where: { userId, id } })
FindByUserId(u, i)   == {r \in rows : r.userId = u /\ r.id = i}
\* UsersBooks.findOne({ where: { id } })
FindById(i)          == {r \in rows : r.id = i}
\* findOne returns the first match (lowest id) or null
First(S) == IF S = {} THEN NULL
            ELSE Some(CHOOSE r \in S : \A q \in S : r.id <= q.id)

\* the rating validator without its lower bound
RatingValid_NoMin(r) == r = NULL \/ Val(r) <= RatingMax

\* the validators of the users_books model; a null value is not validated
RatingValid(r) == r = NULL \/ (Val(r) >= RatingMin /\ Val(r) <= RatingMax)
NotesValid(n)  == n = NULL \/ (Len(Val(n)) >= NotesMin /\ Len(Val(n)) <= NotesMax)
ModelValid(r, n) == RatingValid(r) /\ NotesValid(n)

\* a new call in slot p
NewCall(p, op, u, b, in) ==
    [NoCall EXCEPT !.op = op, !.pc = "start", !.userId = u, !.bookId = b,
                   !.userRating = in.userRating, !.dateStarted = in.dateStarted,
                   !.dateFinished = in.dateFinished,
                   !.userNotes = in.userNotes, !.importBook = in.importBook,
                   !.outcome = "pending", !.rows0 = rows, !.books0 = books,
                   !.seq = ncalls + 1, !.at = now]

\* a caller starts its next call in the free slot whose call is the oldest
Older(p, q) == call[p].seq < call[q].seq \/ (call[p].seq = call[q].seq /\ p < q)
CanStart(p, h) ==
    /\ p \in h.slots /\ ~Active(call[p]) /\ ncalls < h.calls
    /\ \A q \in h.slots \ {p} : IF Active(call[q]) THEN h.overlap ELSE Older(p, q)

Finish(c, outcome, ret) == [c EXCEPT !.pc = "done", !.outcome = outcome, !.ret = ret]

\* ------------------------------------------------------------ addBookToUser
\* the input checks with the rating checked against both bounds, as the update does
AddValidation_BothBounds(r, ds, df, t) ==
    IF r # NULL /\ (Val(r) < RatingMin \/ Val(r) > AddRatingLimit) THEN ErrRating
    ELSE IF ds # NULL /\ df # NULL /\ Val(ds) > Val(df) THEN ErrDateOrder
    ELSE IF ds # NULL /\ Val(ds) > t THEN ErrDateFuture
    ELSE "ok"

\* the input checks without the check of a start date in the future
AddValidation_NoFutureCheck(r, ds, df, t) ==
    IF r # NULL /\ Val(r) > AddRatingLimit THEN ErrRating
    ELSE IF ds # NULL /\ df # NULL /\ Val(ds) > Val(df) THEN ErrDateOrder
    ELSE "ok"

\* the input checks with the date checks ahead of the rating check
AddValidation_DatesFirst(r, ds, df, t) ==
    IF ds # NULL /\ df # NULL /\ Val(ds) > Val(df) THEN ErrDateOrder
    ELSE IF ds # NULL /\ Val(ds) > t THEN ErrDateFuture
    ELSE IF r # NULL /\ Val(r) > AddRatingLimit THEN ErrRating
    ELSE "ok"

\* the input checks, in the order of the code; "ok" when all pass
AddValidation(r, ds, df, t) ==
    IF r # NULL /\ Val(r) > AddRatingLimit THEN ErrRating
    ELSE IF ds # NULL /\ df # NULL /\ Val(ds) > Val(df) THEN ErrDateOrder
    ELSE IF ds # NULL /\ Val(ds) > t THEN ErrDateFuture
    ELSE "ok"

\* the values UsersBooks.create is given
AddRating(r) == IF r # NULL /\ Val(r) # 0 THEN r ELSE NULL
AddNotes(n)  == IF n # NULL /\ Len(Val(n)) # 0 THEN n ELSE NULL
NewRow(c, id) ==
    [id |-> id, userId |-> c.userId, bookId |-> c.bookId,
     userRating |-> AddRating(c.userRating),
     dateStarted |-> c.dateStarted, dateFinished |-> c.dateFinished,
     userNotes |-> AddNotes(c.userNotes), import |-> c.importBook]

\* the call and its synchronous part: the input checks, then Book.findByPk is issued
AddCall(p, h) ==
    /\ CanStart(p, h)
    /\ \E u \in h.users, b \in h.books, in \in h.inputs :
         LET c == NewCall(p, "add", u, b, in)
             v == AddValidation(in.userRating, in.dateStarted, in.dateFinished, now)
         IN  call' = [call EXCEPT ![p] =
                        IF v = "ok" THEN [c EXCEPT !.pc = "findByPk"]
                        ELSE Finish(c, v, NULL)]
    /\ ncalls' = ncalls + 1
    /\ UNCHANGED <<books, rows, nextId, now>>
    /\ UNCHANGED fetchCall

\* Book.findByPk(bookId) answers
AddFindByPk(p) ==
    /\ call[p].op = "add" /\ call[p].pc = "findByPk"
    /\ call' = [call EXCEPT ![p] =
                  IF call[p].bookId \in DOMAIN books
                  THEN [@ EXCEPT !.pc = "findOne"]
                  ELSE Finish(@, ErrNoBook, NULL)]
    /\ UNCHANGED <<books, rows, nextId, now, ncalls>>
    /\ UNCHANGED fetchCall

\* the lookup answering that no association exists
AddFindOne_NoLookup(p) ==
    /\ call[p].op = "add" /\ call[p].pc = "findOne"
    /\ call' = [call EXCEPT ![p] = [@ EXCEPT !.pc = "create"]]
    /\ UNCHANGED <<books, rows, nextId, now, ncalls>>
    /\ UNCHANGED fetchCall

\* the lookup with an existing association overwritten by the supplied values
AddFindOne_Upsert(p) ==
    /\ call[p].op = "add" /\ call[p].pc = "findOne"
    /\ LET existing == First(FindByUserBook(call[p].userId, call[p].bookId))
           row      == NewRow(call[p], Val(existing).id)
       IN  IF existing # NULL
           THEN /\ rows' = (rows \ existing) \cup {row}
                /\ call' = [call EXCEPT ![p] = Finish(@, "ok", Some(row))]
           ELSE /\ call' = [call EXCEPT ![p] = [@ EXCEPT !.pc = "create"]]
                /\ UNCHANGED rows
    /\ UNCHANGED <<books, nextId, now, ncalls>>
    /\ UNCHANGED fetchCall

\* UsersBooks.findOne({ userId, bookId }) answers
AddFindOne(p) ==
    /\ call[p].op = "add" /\ call[p].pc = "findOne"
    /\ LET existing == First(FindByUserBook(call[p].userId, call[p].bookId))
       IN  call' = [call EXCEPT ![p] =
                      IF existing # NULL THEN Finish(@, "ok", existing)
                      ELSE [@ EXCEPT !.pc = "create"]]
    /\ UNCHANGED <<books, rows, nextId, now, ncalls>>
    /\ UNCHANGED fetchCall

\* UsersBooks.create(...) answers: the model validates, then the row is inserted
AddCreate(p) ==
    /\ call[p].op = "add" /\ call[p].pc = "create"
    /\ LET row == NewRow(call[p], nextId)
       IN  IF ModelValid(row.userRating, row.userNotes)
           THEN /\ rows' = rows \cup {row}
                /\ nextId' = nextId + 1
                /\ call' = [call EXCEPT ![p] = [@ EXCEPT !.pc = "refetch",
                                                          !.found = Some(row.id)]]
           ELSE /\ call' = [call EXCEPT ![p] = Finish(@, ErrModel, NULL)]
                /\ UNCHANGED <<rows, nextId>>
    /\ UNCHANGED <<books, now, ncalls>>
    /\ UNCHANGED fetchCall

\* UsersBooks.findOne({ id: userBook.id }) answers; its result is returned
AddRefetch(p) ==
    /\ call[p].op = "add" /\ call[p].pc = "refetch"
    /\ call' = [call EXCEPT ![p] = Finish(@, "ok", First(FindById(Val(call[p].found))))]
    /\ UNCHANGED <<books, rows, nextId, now, ncalls>>
    /\ UNCHANGED fetchCall

\* ----------------------------------------------------------- updateUserBook
\* the input checks with the rating's lower bound left out
UpdValidation_NoLowerBound(r, ds, df, t) ==
    IF r # NULL /\ Val(r) > UpdRatingHigh THEN ErrRating
    ELSE IF ds # NULL /\ df # NULL /\ Val(ds) > Val(df) THEN ErrDateOrder
    ELSE IF ds # NULL /\ Val(ds) > t THEN ErrDateFuture
    ELSE "ok"

\* the input checks without the two date checks
UpdValidation_NoDateChecks(r, ds, df, t) ==
    IF r # NULL /\ (Val(r) < UpdRatingLow \/ Val(r) > UpdRatingHigh) THEN ErrRating
    ELSE "ok"

\* the input checks, in the order of the code; "ok" when all pass
UpdValidation(r, ds, df, t) ==
    IF r # NULL /\ (Val(r) < UpdRatingLow \/ Val(r) > UpdRatingHigh) THEN ErrRating
    ELSE IF ds # NULL /\ df # NULL /\ Val(ds) > Val(df) THEN ErrDateOrder
    ELSE IF ds # NULL /\ Val(ds) > t THEN ErrDateFuture
    ELSE "ok"

\* the row written as a partial patch: an omitted argument keeps the stored value
UpdatedRow_PartialPatch(row, c) ==
    [row EXCEPT !.userRating = IF c.userRating = NULL THEN @ ELSE c.userRating,
                !.dateStarted = IF c.dateStarted = NULL THEN @ ELSE c.dateStarted,
                !.dateFinished = IF c.dateFinished = NULL THEN @ ELSE c.dateFinished,
                !.userNotes = IF c.userNotes = NULL THEN @ ELSE c.userNotes]

\* the row after userBook.update({ userRating, dateStarted, dateFinished, userNotes })
UpdatedRow(row, c) ==
    [row EXCEPT !.userRating = c.userRating, !.dateStarted = c.dateStarted,
                !.dateFinished = c.dateFinished, !.userNotes = c.userNotes]

\* the call and its synchronous part: the input checks, then findOne is issued
UpdCall(p, h) ==
    /\ CanStart(p, h)
    /\ \E u \in h.users, i \in h.ids, in \in h.inputs :
         LET c == NewCall(p, "update", u, i, [in EXCEPT !.importBook = FALSE])
             v == UpdValidation(in.userRating, in.dateStarted, in.dateFinished, now)
         IN  call' = [call EXCEPT ![p] =
                        IF v = "ok" THEN [c EXCEPT !.pc = "findOne"]
                        ELSE Finish(c, v, NULL)]
    /\ ncalls' = ncalls + 1
    /\ UNCHANGED <<books, rows, nextId, now>>
    /\ UNCHANGED fetchCall

\* UsersBooks.findOne({ userId, id: bookId }) answers
UpdFindOne(p) ==
    /\ call[p].op = "update" /\ call[p].pc = "findOne"
    /\ LET userBook == First(FindByUserId(call[p].userId, call[p].bookId))
       IN  call' = [call EXCEPT ![p] =
                      IF userBook = NULL THEN Finish(@, ErrNoUserBook, NULL)
                      ELSE [@ EXCEPT !.pc = "update", !.found = Some(Val(userBook).id)]]
    /\ UNCHANGED <<books, rows, nextId, now, ncalls>>
    /\ UNCHANGED fetchCall

\* the update with the row written before the model validates
UpdUpdate_WriteFirst(p) ==
    /\ call[p].op = "update" /\ call[p].pc = "update"
    /\ rows' = {IF r.id = Val(call[p].found) THEN UpdatedRow(r, call[p]) ELSE r
                  : r \in rows}
    /\ call' = [call EXCEPT ![p] =
                  IF ModelValid(call[p].userRating, call[p].userNotes)
                  THEN [@ EXCEPT !.pc = "refetch"]
                  ELSE Finish(@, ErrModel, NULL)]
    /\ UNCHANGED <<books, nextId, now, ncalls>>
    /\ UNCHANGED fetchCall

\* userBook.update(...) answers: the model validates, then the row is written
UpdUpdate(p) ==
    /\ call[p].op = "update" /\ call[p].pc = "update"
    /\ IF ModelValid(call[p].userRating, call[p].userNotes)
       THEN /\ rows' = {IF r.id = Val(call[p].found) THEN UpdatedRow(r, call[p]) ELSE r
                          : r \in rows}
            /\ call' = [call EXCEPT ![p] = [@ EXCEPT !.pc = "refetch"]]
       ELSE /\ call' = [call EXCEPT ![p] = Finish(@, ErrModel, NULL)]
            /\ UNCHANGED rows
    /\ UNCHANGED <<books, nextId, now, ncalls>>
    /\ UNCHANGED fetchCall

\* UsersBooks.findOne({ id: userBook.id }) answers; its result is returned
UpdRefetch(p) ==
    /\ call[p].op = "update" /\ call[p].pc = "refetch"
    /\ call' = [call EXCEPT ![p] = Finish(@, "ok", First(FindById(Val(call[p].found))))]
    /\ UNCHANGED <<books, rows, nextId, now, ncalls>>
    /\ UNCHANGED fetchCall

\* ------------------------------------------------------- deleteBookFromUser
DelCall(p, h) ==
    /\ CanStart(p, h)
    /\ \E u \in h.users, i \in h.ids :
         call' = [call EXCEPT ![p] =
                    [NewCall(p, "delete", u, i, Input(NULL, NULL, NULL, NULL, FALSE))
                       EXCEPT !.pc = "destroy"]]
    /\ ncalls' = ncalls + 1
    /\ UNCHANGED <<books, rows, nextId, now>>
    /\ UNCHANGED fetchCall

\* UsersBooks.destroy({ where: { userId, id: bookId } }) answers with the rows removed
DelDestroy(p) ==
    /\ call[p].op = "delete" /\ call[p].pc = "destroy"
    /\ LET gone == FindByUserId(call[p].userId, call[p].bookId)
       IN  /\ rows' = rows \ gone
           /\ call' = [call EXCEPT ![p] =
                         IF Cardinality(gone) = 0 THEN Finish(@, ErrNotFound, NULL)
                         ELSE Finish(@, "ok", NULL)]
    /\ UNCHANGED <<books, nextId, now, ncalls>>
    /\ UNCHANGED fetchCall

\* ----------------------------------------------------------- getBookForUser
GetCall(p, h) ==
    /\ CanStart(p, h)
    /\ \E u \in h.users, i \in h.ids :
         call' = [call EXCEPT ![p] =
                    [NewCall(p, "get", u, i, Input(NULL, NULL, NULL, NULL, FALSE))
                       EXCEPT !.pc = "findOne"]]
    /\ ncalls' = ncalls + 1
    /\ UNCHANGED <<books, rows, nextId, now>>
    /\ UNCHANGED fetchCall

\* the association joined with its Book
Joined(row) == [row |-> row, book |-> [id |-> row.bookId, bookDetails |-> books[row.bookId]]]

\* the lookup of a get that asks the provider only when the cached metadata is stale
GetFindOne_CacheFirst(p) ==
    /\ call[p].op = "get" /\ call[p].pc = "findOne"
    /\ LET book == First(FindByUserId(call[p].userId, call[p].bookId))
       IN  call' = [call EXCEPT ![p] =
                      IF book = NULL THEN Finish(@, "ok", NULL)
                      ELSE IF books[Val(book).bookId] # NULL
                                /\ Val(books[Val(book).bookId]).title # ""
                      THEN Finish([@ EXCEPT !.found = Some(Joined(Val(book)))], "ok",
                                  Some([row |-> Val(book),
                                        book |-> [id |-> Val(book).bookId,
                                                  bookDetails |-> books[Val(book).bookId],
                                                  fetched |-> books[Val(book).bookId]]]))
                      ELSE [@ EXCEPT !.pc = "fetch", !.found = Some(Joined(Val(book))),
                                     !.fetches = @ + 1]]
    /\ UNCHANGED <<books, rows, nextId, now, ncalls>>
    /\ UNCHANGED fetchCall

\* UsersBooks.findOne({ userId, id }, include Book) answers; when a row is found
\* the provider is asked for the book
GetFindOne(p) ==
    /\ call[p].op = "get" /\ call[p].pc = "findOne"
    /\ LET book == First(FindByUserId(call[p].userId, call[p].bookId))
       IN  call' = [call EXCEPT ![p] =
                      IF book = NULL THEN Finish(@, "ok", NULL)
                      ELSE [@ EXCEPT !.pc = "fetch", !.found = Some(Joined(Val(book))),
                                     !.fetches = @ + 1]]
    /\ UNCHANGED <<books, rows, nextId, now, ncalls>>
    /\ UNCHANGED fetchCall

\* { ...userBook, book: { ...book, ...bookDetails } }
Overlay(j, details) == [row |-> j.row, book |-> [id |-> j.book.id,
                          bookDetails |-> j.book.bookDetails, fetched |-> details]]

\* bookModule.getFromBookQuickLink answers, or fails
GetFetch(p) ==
    /\ call[p].op = "get" /\ call[p].pc = "fetch"
    /\ \/ \E details \in ProviderResponses :
            call' = [call EXCEPT ![p] =
                       Finish(@, "ok", Some(Overlay(Val(call[p].found), details)))]
       \/ call' = [call EXCEPT ![p] = Finish(@, ErrProvider, NULL)]
    /\ UNCHANGED <<books, rows, nextId, now, ncalls>>
    /\ UNCHANGED fetchCall

\* ---------------------------------------------------------- getBooksForUser
\* the staleness test without its title condition
Stale_NullOnly(bookDetails) == bookDetails = NULL

\* !bookDetails || !bookDetails.volumeInfo?.title
Stale(bookDetails) == bookDetails = NULL \/ Val(bookDetails).title = ""

\* the rows of a query, in id order
RECURSIVE InIdOrder(_)
InIdOrder(S) ==
    IF S = {} THEN <<>>
    ELSE LET r == CHOOSE x \in S : \A y \in S : x.id <= y.id
         IN  <<r>> \o InIdOrder(S \ {r})

\* the mapper of one userBook up to its first await: a stale book has its fetch issued
Mapper(row) ==
    [row |-> row, bookId |-> row.bookId, cached |-> books[row.bookId],
     bookDetails |-> books[row.bookId],
     st |-> IF Stale(books[row.bookId]) THEN "fetch" ELSE "ready"]

Settled(t) == t.st \in {"ready", "done"}

ListCall(p, h) ==
    /\ CanStart(p, h)
    /\ \E u \in h.users :
         call' = [call EXCEPT ![p] =
                    [NewCall(p, "list", u, 0, Input(NULL, NULL, NULL, NULL, FALSE))
                       EXCEPT !.pc = "findAll"]]
    /\ ncalls' = ncalls + 1
    /\ UNCHANGED <<books, rows, nextId, now>>
    /\ UNCHANGED fetchCall

\* UsersBooks.findAll({ userId }, include Book) answers; every mapper starts
ListFindAll(p) ==
    /\ call[p].op = "list" /\ call[p].pc = "findAll"
    /\ LET found == InIdOrder({r \in rows : r.userId = call[p].userId})
           tasks == [i \in DOMAIN found |-> Mapper(found[i])]
       IN  call' = [call EXCEPT ![p] =
                      [@ EXCEPT !.pc = "wait", !.tasks = tasks,
                                !.fetches = Cardinality({i \in DOMAIN tasks :
                                                           tasks[i].st = "fetch"})]]
    /\ UNCHANGED <<books, rows, nextId, now, ncalls>>
    /\ UNCHANGED fetchCall

\* a failing mapper whose failure is swallowed: the call keeps waiting
Reject_KeepWaiting(c, i, err) == [c EXCEPT !.tasks[i].st = "failed"]

\* Promise.all rejects with the first mapper that fails, while the call still waits
Reject(c, i, err) ==
    LET failed == [c EXCEPT !.tasks[i].st = "failed"]
    IN  IF c.pc = "wait" THEN Finish(failed, err, NULL) ELSE failed

\* getFromBookQuickLink answers for one book, or fails; book.update is issued
ListFetch(p, i) ==
    /\ call[p].op = "list" /\ i \in DOMAIN call[p].tasks
    /\ call[p].tasks[i].st = "fetch"
    /\ \/ \E details \in ProviderResponses :
            call' = [call EXCEPT ![p] = [@ EXCEPT !.tasks[i].bookDetails = details,
                                                  !.tasks[i].st = "write"]]
       \/ call' = [call EXCEPT ![p] = Reject(@, i, ErrProvider)]
    /\ UNCHANGED <<books, rows, nextId, now, ncalls>>
    /\ UNCHANGED fetchCall

\* the refresh of one book without the write of the Book row
ListWrite_NoWrite(p, i) ==
    /\ call[p].op = "list" /\ i \in DOMAIN call[p].tasks
    /\ call[p].tasks[i].st = "write"
    /\ call' = [call EXCEPT ![p] = [@ EXCEPT !.tasks[i].st = "done"]]
    /\ UNCHANGED <<books, rows, nextId, now, ncalls>>
    /\ UNCHANGED fetchCall

\* userBook.book.update({ bookDetails }) answers: the Book row is written, or the
\* store fails
ListWrite(p, i) ==
    /\ call[p].op = "list" /\ i \in DOMAIN call[p].tasks
    /\ call[p].tasks[i].st = "write"
    /\ \/ /\ books' = [books EXCEPT ![call[p].tasks[i].bookId] =
                                      call[p].tasks[i].bookDetails]
          /\ call' = [call EXCEPT ![p] = [@ EXCEPT !.tasks[i].st = "done"]]
       \/ /\ call' = [call EXCEPT ![p] = Reject(@, i, ErrStore)]
          /\ UNCHANGED books
    /\ UNCHANGED <<rows, nextId, now, ncalls>>
    /\ UNCHANGED fetchCall

\* { ...userBook, book: { ...book, bookDetails } }
Merged(t) == [row |-> t.row, book |-> [id |-> t.bookId, bookDetails |-> t.bookDetails]]

\* every mapper has finished: Promise.all resolves and the list is returned
ListReturn(p) ==
    /\ call[p].op = "list" /\ call[p].pc = "wait"
    /\ \A i \in DOMAIN call[p].tasks : Settled(call[p].tasks[i])
    /\ call' = [call EXCEPT ![p] =
                  Finish(@, "ok", [i \in DOMAIN call[p].tasks |-> Merged(call[p].tasks[i])])]
    /\ UNCHANGED <<books, rows, nextId, now, ncalls>>
    /\ UNCHANGED fetchCall

\* --------------------------------------------------------------- useMyFetch
\* what the server may answer to one request
Responses ==
    {[status |-> 401, ok |-> FALSE, json |-> FALSE],
     [status |-> 500, ok |-> FALSE, json |-> FALSE],
     [status |-> 200, ok |-> TRUE, json |-> FALSE],
     [status |-> 200, ok |-> TRUE, json |-> TRUE]}

\* the value Preferences holds under 'access_token', and what a refresh yields
StoredTokens == {NULL, Some("stored")}
NewTokens    == {NULL, Some("fresh")}

FetchDone(f, outcome) == [f EXCEPT !.pc = "done", !.outcome = outcome]

\* the rounds of one call, counted up to MaxRounds
NextRound(r) == IF r < MaxRounds THEN r + 1 ELSE r

\* the call: on the client the stored token is read first, on the server the
\* request is sent with no token
UseMyFetch ==
    /\ fetchCall.pc \in {"idle", "done"} /\ fetchCall.n < MaxFetchCalls
    /\ \E client \in BOOLEAN, useAuthHeader \in BOOLEAN :
         fetchCall' = [NoFetch EXCEPT !.pc = IF client THEN "prefs" ELSE "fetch",
                                      !.client = client,
                                      !.useAuthHeader = useAuthHeader,
                                      !.outcome = "pending",
                                      !.n = fetchCall.n + 1]
    /\ UNCHANGED <<books, rows, nextId, now, call, ncalls>>

\* Preferences.get({ key: 'access_token' }) answers, or fails
PreferencesGet ==
    /\ fetchCall.pc = "prefs"
    /\ \/ \E value \in StoredTokens :
            fetchCall' = [fetchCall EXCEPT !.token = value, !.pc = "fetch"]
       \/ fetchCall' = FetchDone(fetchCall, "error")
    /\ UNCHANGED <<books, rows, nextId, now, call, ncalls>>

\* fetch(url, fetchOptions) answers with a response
FetchAnswers ==
    /\ fetchCall.pc = "fetch"
    /\ \E response \in Responses :
         fetchCall' =
            IF response.status = 401
            THEN IF fetchCall.client THEN [fetchCall EXCEPT !.pc = "refresh"]
                 ELSE FetchDone(fetchCall, "null")
            ELSE IF ~response.ok THEN FetchDone(fetchCall, "http error")
            ELSE IF ~response.json THEN FetchDone(fetchCall, "invalid content-type")
            ELSE FetchDone(fetchCall, "json")
    /\ UNCHANGED <<books, rows, nextId, now, call, ncalls>>

\* fetch(url, fetchOptions) throws
FetchThrows ==
    /\ fetchCall.pc = "fetch"
    /\ \E message \in {"Failed to fetch", "other"} :
         fetchCall' = FetchDone(fetchCall, IF message = "Failed to fetch"
                                           THEN "network error" ELSE "error")
    /\ UNCHANGED <<books, rows, nextId, now, call, ncalls>>

\* refreshAccessToken() answers: with a token fetchWithToken is called again,
\* without one the client logs out and goes to the login page
RefreshAnswers ==
    /\ fetchCall.pc = "refresh"
    /\ \E newToken \in NewTokens :
         fetchCall' =
            IF newToken # NULL
            THEN [fetchCall EXCEPT !.token = newToken, !.pc = "fetch",
                                   !.rounds = NextRound(@)]
            ELSE [FetchDone(fetchCall, "login") EXCEPT !.loggedOut = TRUE]
    /\ UNCHANGED <<books, rows, nextId, now, call, ncalls>>

\* refreshAccessToken() throws
RefreshThrows ==
    /\ fetchCall.pc = "refresh"
    /\ fetchCall' = FetchDone(fetchCall, "error")
    /\ UNCHANGED <<books, rows, nextId, now, call, ncalls>>

\* ------------------------------------------------------------------- clock
\* time passes
Tick ==
    /\ now < MaxTime
    /\ now' = now + 1
    /\ UNCHANGED <<books, rows, nextId, call, ncalls>>
    /\ UNCHANGED fetchCall

\* ---------------------------------------------------------- specifications
Start(p, h) ==
    \/ AddCall(p, h)
    \/ UpdCall(p, h)
    \/ DelCall(p, h)
    \/ GetCall(p, h)
    \/ ListCall(p, h)

Step(p) ==
    \/ AddFindByPk(p)
    \/ AddFindOne(p)
    \/ AddCreate(p)
    \/ AddRefetch(p)
    \/ UpdFindOne(p)
    \/ UpdUpdate(p)
    \/ UpdRefetch(p)
    \/ DelDestroy(p)
    \/ GetFindOne(p)
    \/ GetFetch(p)
    \/ ListFindAll(p)
    \/ \E i \in 1 .. MaxCalls : ListFetch(p, i)
    \/ \E i \in 1 .. MaxCalls : ListWrite(p, i)
    \/ ListReturn(p)

\* requests that overlap
Next ==
    \/ \E p \in Procs : Start(p, Concurrent)
    \/ \E p \in Procs : Step(p)
    \/ Tick

Spec == Init /\ [][Next]_vars

\* one request after the other
NextSeq ==
    \/ \E p \in Procs : Start(p, Sequential)
    \/ \E p \in Procs : Step(p)
    \/ Tick

SpecSeq == Init /\ [][NextSeq]_vars

\* one request after the other, over every combination of the optional arguments
NextWide ==
    \/ \E p \in Procs : Start(p, Single)
    \/ \E p \in Procs : Step(p)
    \/ Tick

SpecWide == Init /\ [][NextWide]_vars

\* the client's requests; every awaited promise settles and its continuation runs
FetchStep ==
    \/ PreferencesGet
    \/ FetchAnswers
    \/ FetchThrows
    \/ RefreshAnswers
    \/ RefreshThrows

NextFetch ==
    \/ UseMyFetch
    \/ FetchStep

SpecFetch == Init /\ [][NextFetch]_vars /\ WF_vars(FetchStep)

\* ------------------------------------------------------------------ claims
Returned(c)  == c.pc = "done"
Succeeded(c) == c.pc = "done" /\ c.outcome = "ok"
Refused(c)   == c.pc = "done" /\ c.outcome # "ok"
\* no call has started since c did
Latest(c)    == c.seq = ncalls
\* y is the call made right after x
FollowedBy(x, y) == x.seq >= 1 /\ y.seq = x.seq + 1

\* the rating and date rules an update payload must meet at the time of the call
PayloadMeetsRules(c) ==
    /\ c.userRating # NULL => (Val(c.userRating) >= 1 /\ Val(c.userRating) <= 10)
    /\ (c.dateStarted # NULL /\ c.dateFinished # NULL)
          => Val(c.dateStarted) <= Val(c.dateFinished)
    /\ c.dateStarted # NULL => Val(c.dateStarted) <= c.at

\* the arguments of an add call that no check of the service or of the model refuses
AddInputAccepted(c) ==
    /\ c.userRating # NULL => (Val(c.userRating) >= 0 /\ Val(c.userRating) <= 10)
    /\ (c.dateStarted # NULL /\ c.dateFinished # NULL)
          => Val(c.dateStarted) <= Val(c.dateFinished)
    /\ c.dateStarted # NULL => Val(c.dateStarted) <= c.at
    /\ c.userNotes # NULL => Len(Val(c.userNotes)) <= 1000

\* the arguments of an add call that pass the three input checks of the service
AddChecksPass(c) ==
    /\ c.userRating # NULL => Val(c.userRating) <= 10
    /\ (c.dateStarted # NULL /\ c.dateFinished # NULL)
          => Val(c.dateStarted) <= Val(c.dateFinished)
    /\ c.dateStarted # NULL => Val(c.dateStarted) <= c.at

\* C1: after any interleaving of addBookToUser calls, including two concurrent
\* calls for the same (userId, bookId), the association store holds at most one
\* row per (userId, bookId) pair.
C1_OneRowPerPair ==
    \A r1 \in rows, r2 \in rows :
        (r1.userId = r2.userId /\ r1.bookId = r2.bookId) => r1.id = r2.id

\* C2: for an existing Book, a pair with no prior association and accepted
\* inputs, two consecutive addBookToUser calls with that pair both succeed, return
\* the same association id, and leave exactly one more row than before the first.
C2_AddTwiceSameId ==
    \A p \in Procs, q \in Procs :
        LET x == call[p]
            y == call[q]
        IN  ( /\ x.op = "add" /\ y.op = "add" /\ FollowedBy(x, y)
              /\ Returned(y) /\ Latest(y)
              /\ x.userId = y.userId /\ x.bookId = y.bookId
              /\ x.bookId \in BookIds
              /\ ~ \E r \in x.rows0 : r.userId = x.userId /\ r.bookId = x.bookId
              /\ AddInputAccepted(x) /\ AddInputAccepted(y) )
            => /\ Succeeded(x) /\ Succeeded(y)
               /\ x.ret # NULL /\ y.ret # NULL
               /\ Val(x.ret).id = Val(y.ret).id
               /\ Cardinality(rows) = Cardinality(x.rows0) + 1

C2_Witness ==
    \E p \in Procs, q \in Procs :
        /\ call[p].op = "add" /\ call[q].op = "add" /\ FollowedBy(call[p], call[q])
        /\ Succeeded(call[p]) /\ Succeeded(call[q]) /\ Latest(call[q])
        /\ call[p].userId = call[q].userId /\ call[p].bookId = call[q].bookId
        /\ call[p].rows0 # {}
        /\ ~ \E r \in call[p].rows0 :
               r.userId = call[p].userId /\ r.bookId = call[p].bookId
        /\ call[p].userRating # call[q].userRating
        /\ Val(call[p].ret).id = Val(call[q].ret).id

\* C3 as stated: updateUserBook for a (userId, associationId) with no row always
\* rejects with the not-found outcome, for every payload.
C3_AlwaysNotFound ==
    \A p \in Procs :
        LET c == call[p]
        IN  ( /\ c.op = "update" /\ Returned(c)
              /\ ~ \E r \in c.rows0 : r.userId = c.userId /\ r.id = c.bookId )
            => c.outcome = ErrNoUserBook

\* C3, amended: updateUserBook for a (userId, associationId) with no row always
\* rejects: with the not-found outcome when the payload meets the rating and date
\* rules, and with the reason of a rating or date rule when it does not.
C3_NotFoundAfterValidation ==
    \A p \in Procs :
        LET c == call[p]
        IN  ( /\ c.op = "update" /\ Returned(c)
              /\ ~ \E r \in c.rows0 : r.userId = c.userId /\ r.id = c.bookId )
            => /\ Refused(c)
               /\ PayloadMeetsRules(c) => c.outcome = ErrNoUserBook
               /\ ~PayloadMeetsRules(c)
                    => c.outcome \in {ErrRating, ErrDateOrder, ErrDateFuture}

C3_Witness ==
    \E p \in Procs :
        /\ call[p].op = "update" /\ Returned(call[p])
        /\ call[p].rows0 # {}
        /\ ~ \E r \in call[p].rows0 :
               r.userId = call[p].userId /\ r.id = call[p].bookId
        /\ call[p].userRating # NULL /\ call[p].dateStarted # NULL
        /\ call[p].outcome = ErrNoUserBook

\* C4: deleteBookFromUser(userId, associationId) where the row exists but belongs
\* to another user rejects with the not-found outcome and leaves every row in the
\* store; a row is removed only when both its id and its userId match the call.
C4_NoCrossUserDelete ==
    \A p \in Procs :
        LET c == call[p]
        IN  (c.op = "delete" /\ Returned(c) /\ Latest(c))
            => /\ (\E r \in c.rows0 : r.id = c.bookId /\ r.userId # c.userId)
                    => (c.outcome = ErrNotFound /\ rows = c.rows0)
               /\ \A r \in c.rows0 \ rows : r.id = c.bookId /\ r.userId = c.userId
               /\ rows \subseteq c.rows0

C4_Witness ==
    \E p \in Procs :
        /\ call[p].op = "delete" /\ Returned(call[p]) /\ Latest(call[p])
        /\ \E r \in call[p].rows0 : r.id = call[p].bookId /\ r.userId # call[p].userId
        /\ Cardinality(rows) = 2
        /\ call[p].outcome = ErrNotFound

\* C5 as stated: for a user with one association to a Book whose cached metadata
\* is null, a listUserBooks call makes exactly one provider fetch and writes the
\* fetched metadata onto the Book row; a second listUserBooks call for the same
\* user, made after the first has returned, makes zero provider fetches.
C5_SecondListNoFetch ==
    \A p \in Procs, q \in Procs :
        LET x == call[p]
            y == call[q]
        IN  ( /\ x.op = "list" /\ Succeeded(x)
              /\ Len(x.tasks) = 1 /\ x.tasks[1].cached = NULL
              /\ y.op = "list" /\ FollowedBy(x, y) /\ y.userId = x.userId
              /\ Returned(y) )
            => /\ x.fetches = 1
               /\ y.books0[x.tasks[1].bookId] = x.tasks[1].bookDetails
               /\ y.fetches = 0

\* C5, amended: for a user with one association to a Book whose cached metadata
\* is null, a listUserBooks call makes exactly one provider fetch for that book
\* and, when it returns its list, has written the fetched metadata onto the Book
\* row; a second listUserBooks call for the same user, made after the first has
\* returned its list, makes zero provider fetches when the metadata the first
\* call fetched has a title, and one provider fetch when it has none.
C5_SecondListFetchesIffNoTitle ==
    \A p \in Procs, q \in Procs :
        LET x == call[p]
            y == call[q]
        IN  ( /\ x.op = "list" /\ x.pc \in {"wait", "done"}
              /\ Len(x.tasks) = 1 /\ x.tasks[1].cached = NULL )
            => /\ x.fetches = 1
               /\ (Succeeded(x) /\ Latest(x))
                    => /\ x.tasks[1].bookDetails \in ProviderResponses
                       /\ books[x.tasks[1].bookId] = x.tasks[1].bookDetails
               /\ ( /\ Succeeded(x)
                    /\ y.op = "list" /\ FollowedBy(x, y) /\ y.userId = x.userId
                    /\ Returned(y) )
                    => /\ y.books0[x.tasks[1].bookId] = x.tasks[1].bookDetails
                       /\ y.fetches = IF Val(x.tasks[1].bookDetails).title # ""
                                      THEN 0 ELSE 1

C5_Witness ==
    \E p \in Procs, q \in Procs :
        /\ call[p].op = "list" /\ Succeeded(call[p])
        /\ Len(call[p].tasks) = 1 /\ call[p].tasks[1].cached = NULL
        /\ call[p].tasks[1].bookDetails = Titled /\ call[p].fetches = 1
        /\ call[q].op = "list" /\ FollowedBy(call[p], call[q])
        /\ call[q].userId = call[p].userId
        /\ Succeeded(call[q]) /\ call[q].fetches = 0
        /\ books[call[p].tasks[1].bookId] = Titled

C7_FutureStartRejected ==
    \A p \in Procs :
        LET c == call[p]
        IN  ( /\ c.op \in {"add", "update"} /\ Returned(c)
              /\ c.dateStarted # NULL /\ c.dateFinished = NULL
              /\ Val(c.dateStarted) > c.at )
            => /\ Refused(c)
               /\ Latest(c) => rows = c.rows0

C7_Witness ==
    \E p \in Procs :
        /\ call[p].op = "update" /\ Returned(call[p]) /\ Latest(call[p])
        /\ call[p].dateStarted # NULL /\ call[p].dateFinished = NULL
        /\ Val(call[p].dateStarted) > call[p].at
        /\ call[p].userRating = Some(5)
        /\ \E r \in rows : r.userId = call[p].userId /\ r.id = call[p].bookId
        /\ call[p].outcome = ErrDateFuture

\* C8: for a fresh (userId, bookId) pair with an existing Book and accepted
\* inputs, addBookToUser returns an association whose userId, bookId, userRating,
\* dateStarted and dateFinished equal the supplied values (notes unset when
\* empty), and a following getUserBook(userId, returned id) returns that same
\* association with the same field values.
C8_AddReturnsSupplied ==
    \A p \in Procs, q \in Procs :
        LET x == call[p]
            y == call[q]
        IN  ( /\ x.op = "add" /\ Returned(x)
              /\ x.bookId \in BookIds
              /\ ~ \E r \in x.rows0 : r.userId = x.userId /\ r.bookId = x.bookId
              /\ AddInputAccepted(x) )
            => /\ Succeeded(x) /\ x.ret # NULL
               /\ Val(x.ret).userId = x.userId
               /\ Val(x.ret).bookId = x.bookId
               /\ Val(x.ret).userRating = x.userRating
               /\ Val(x.ret).dateStarted = x.dateStarted
               /\ Val(x.ret).dateFinished = x.dateFinished
               /\ Val(x.ret).userNotes =
                     (IF x.userNotes = Some("") THEN NULL ELSE x.userNotes)
               /\ ( /\ y.op = "get" /\ FollowedBy(x, y) /\ Succeeded(y)
                    /\ y.userId = x.userId /\ y.bookId = Val(x.ret).id )
                    => (y.ret # NULL /\ Val(y.ret).row = Val(x.ret))

\* C9 as stated: in listUserBooks and in getUserBook, when the Book's cached
\* metadata is stale and the provider call succeeds, the fetched metadata is
\* written onto the Book row before the operation returns its response.
C9_FetchedIsPersisted ==
    \A p \in Procs :
        LET c == call[p]
        IN  (Succeeded(c) /\ Latest(c)) =>
              /\ c.op = "list" =>
                    \A i \in DOMAIN c.tasks :
                        Stale(c.tasks[i].cached)
                          => books[c.tasks[i].bookId] = c.tasks[i].bookDetails
              /\ (c.op = "get" /\ c.ret # NULL /\ Stale(Val(c.found).book.bookDetails))
                    => books[Val(c.ret).book.id] = Val(c.ret).book.fetched

\* C9, amended: in listUserBooks, when the Book's cached metadata is stale and
\* the provider call succeeds, the fetched metadata is written onto the Book row
\* before the operation returns its response; getUserBook puts the fetched
\* metadata in its response and never writes the Book row.
C9_ListPersistsGetDoesNot ==
    \A p \in Procs :
        LET c == call[p]
        IN  (Returned(c) /\ Latest(c)) =>
              /\ (c.op = "list" /\ Succeeded(c)) =>
                    \A i \in DOMAIN c.tasks :
                        Stale(c.tasks[i].cached)
                          => /\ c.tasks[i].bookDetails \in ProviderResponses
                             /\ c.ret[i].book.bookDetails = c.tasks[i].bookDetails
                             /\ books[c.tasks[i].bookId] = c.tasks[i].bookDetails
              /\ c.op = "get" => books = c.books0

C9_Witness ==
    \E p \in Procs :
        /\ call[p].op = "list" /\ Succeeded(call[p]) /\ Latest(call[p])
        /\ Len(call[p].tasks) = 2
        /\ call[p].tasks[1].cached = NULL
        /\ call[p].tasks[1].bookDetails = Titled
        /\ books[call[p].tasks[1].bookId] = Titled
        /\ call[p].tasks[2].cached = NoTitle

\* C10: getUserBook makes exactly one provider fetch whenever the association
\* row is found for (userId, associationId), whether or not the Book's cached
\* metadata is valid; when no row is found it returns the not-found result (not
\* an error) and makes zero provider fetches.
C10_GetAlwaysFetches ==
    \A p \in Procs :
        LET c == call[p]
            found == {r \in c.rows0 : r.userId = c.userId /\ r.id = c.bookId}
        IN  (c.op = "get" /\ Returned(c)) =>
              /\ found # {} => c.fetches = 1
              /\ found = {} => (Succeeded(c) /\ c.ret = NULL /\ c.fetches = 0)

C10_Witness ==
    \E p \in Procs :
        /\ call[p].op = "get" /\ Succeeded(call[p]) /\ call[p].ret # NULL
        /\ ~Stale(Val(call[p].found).book.bookDetails)
        /\ call[p].fetches = 1

\* C11: when listUserBooks returns to its caller, with a result or with an
\* error, every per-book refresh it dispatched has finished: no provider fetch
\* of that call is still in flight and no Book-row write of that call is still
\* to come.
C11_NoRefreshOpenAtReturn ==
    \A p \in Procs :
        (call[p].op = "list" /\ Returned(call[p]))
            => \A i \in DOMAIN call[p].tasks : ~TaskOpen(call[p].tasks[i])

\* C12: if any provider fetch or Book-row write fails during listUserBooks, the
\* call returns an error and no list (never a partial list), and every Book row
\* whose refresh had already been written keeps the refreshed metadata (no
\* rollback).
C12_FailureMeansErrorNoRollback ==
    \A p \in Procs :
        LET c == call[p]
        IN  (c.op = "list" /\ \E i \in DOMAIN c.tasks : c.tasks[i].st = "failed")
              => /\ Refused(c)
                 /\ c.outcome \in {ErrProvider, ErrStore}
                 /\ c.ret = NULL
                 /\ Latest(c) =>
                      \A i \in DOMAIN c.tasks :
                          c.tasks[i].st = "done"
                            => books[c.tasks[i].bookId] = c.tasks[i].bookDetails

C12_Witness ==
    \E p \in Procs :
        LET c == call[p]
        IN  /\ c.op = "list" /\ Refused(c) /\ Latest(c)
            /\ \E i, j \in DOMAIN c.tasks :
                 /\ c.tasks[j].st = "failed"
                 /\ c.tasks[i].st = "done"
                 /\ c.tasks[i].bookDetails = Titled
                 /\ c.books0[c.tasks[i].bookId] # Titled
                 /\ books[c.tasks[i].bookId] = Titled

\* C13: addBookToUser called for a (userId, bookId) that already has an
\* association, with inputs that pass validation but differ from the stored
\* values, returns the existing association and leaves the association store
\* unchanged: no row is added and no field of the existing row is modified.
C13_ExistingReturnedUntouched ==
    \A p \in Procs :
        LET c == call[p]
            existing == {r \in c.rows0 : r.userId = c.userId /\ r.bookId = c.bookId}
        IN  (c.op = "add" /\ Returned(c) /\ existing # {} /\ AddChecksPass(c))
              => /\ Succeeded(c)
                 /\ c.ret # NULL /\ c.ret \subseteq existing
                 /\ Latest(c) => rows = c.rows0

C13_Witness ==
    \E p \in Procs :
        LET c == call[p]
        IN  /\ c.op = "add" /\ Succeeded(c) /\ Latest(c)
            /\ c.ret # NULL /\ c.ret \subseteq c.rows0
            /\ c.userRating = Some(5) /\ Val(c.ret).userRating = NULL
            /\ c.userNotes # Val(c.ret).userNotes
            /\ rows = c.rows0

\* C14: after a successful updateUserBook, the row's userRating, dateStarted,
\* dateFinished and userNotes each equal the value supplied in the call, with an
\* omitted argument overwriting the stored value with null; the row's id,
\* userId, bookId and import flag, and every other row, are unchanged.
C14_UpdateIsFullReplace ==
    \A p \in Procs :
        LET c == call[p]
        IN  (c.op = "update" /\ Succeeded(c) /\ Latest(c)) =>
              \E old \in c.rows0 :
                  LET new == [id |-> old.id, userId |-> old.userId,
                              bookId |-> old.bookId, import |-> old.import,
                              userRating |-> c.userRating,
                              dateStarted |-> c.dateStarted,
                              dateFinished |-> c.dateFinished,
                              userNotes |-> c.userNotes]
                  IN  /\ old.id = c.bookId /\ old.userId = c.userId
                      /\ rows = (c.rows0 \ {old}) \cup {new}
                      /\ c.ret = Some(new)

C14_Witness ==
    \E p \in Procs :
        LET c == call[p]
        IN  /\ c.op = "update" /\ Succeeded(c) /\ Latest(c)
            /\ c.userRating = NULL /\ c.dateStarted = NULL
            /\ c.dateFinished = NULL /\ c.userNotes = NULL
            /\ Cardinality(c.rows0) = 2
            /\ \E old \in c.rows0 :
                 /\ old.id = c.bookId /\ old.userRating = Some(5)
                 /\ old.dateStarted # NULL /\ old.dateFinished # NULL
                 /\ old.userNotes # NULL /\ old.import
            /\ Val(c.ret).userRating = NULL /\ Val(c.ret).import
            /\ Val(c.ret) \in rows

\* C15: in addBookToUser the checks are applied in the order rating upper bound,
\* date ordering, future start date, Book existence, and the first failing check
\* decides the outcome: a call that fails any of the three input checks is
\* rejected with that check's reason before any store read, even when the Book
\* does not exist or the association already exists.
C15_FirstFailingCheckDecides ==
    \A p \in Procs :
        LET c == call[p]
            ratingFails == c.userRating # NULL /\ Val(c.userRating) > 10
            orderFails  == /\ c.dateStarted # NULL /\ c.dateFinished # NULL
                           /\ Val(c.dateStarted) > Val(c.dateFinished)
            futureFails == c.dateStarted # NULL /\ Val(c.dateStarted) > c.at
            bookMissing == c.bookId \notin BookIds
        IN  c.op = "add" =>
              /\ ratingFails => (Returned(c) /\ c.outcome = ErrRating)
              /\ (~ratingFails /\ orderFails)
                    => (Returned(c) /\ c.outcome = ErrDateOrder)
              /\ (~ratingFails /\ ~orderFails /\ futureFails)
                    => (Returned(c) /\ c.outcome = ErrDateFuture)
              /\ (~ratingFails /\ ~orderFails /\ ~futureFails /\ bookMissing
                    /\ Returned(c))
                    => c.outcome = ErrNoBook

C15_Witness ==
    \E p \in Procs :
        LET c == call[p]
        IN  /\ c.op = "add" /\ Returned(c) /\ Latest(c)
            /\ \E r \in c.rows0 : r.userId = c.userId /\ r.bookId = c.bookId
            /\ c.userRating = Some(11)
            /\ c.dateStarted # NULL /\ c.dateFinished # NULL
            /\ Val(c.dateStarted) > Val(c.dateFinished)
            /\ Val(c.dateStarted) > c.at
            /\ c.outcome = ErrRating
            /\ rows = c.rows0

\* C16: after any sequence of addBookToUser, updateUserBook and
\* deleteBookFromUser calls, every association row in the store has userRating
\* either unset or an integer in 1..10.
C16_StoredRatingInRange ==
    \A r \in rows :
        r.userRating = NULL \/ Val(r.userRating) \in 1 .. 10

C16_Witness ==
    \E p \in Procs :
        /\ call[p].op = "add" /\ call[p].userRating = Some(0 - 1)
        /\ call[p].outcome = ErrModel
        /\ \E r \in rows : r.userRating = Some(5)

\* C17: after any sequence of addBookToUser and updateUserBook calls, every
\* association row that has both dateStarted and dateFinished set satisfies
\* dateStarted <= dateFinished, and every row with dateStarted set has
\* dateStarted no later than the time of the call that wrote it.
C17_StoredDatesOrdered ==
    /\ \A r \in rows :
         /\ (r.dateStarted # NULL /\ r.dateFinished # NULL)
               => Val(r.dateStarted) <= Val(r.dateFinished)
         /\ r.dateStarted # NULL => Val(r.dateStarted) <= now
    /\ \A p \in Procs :
         LET c == call[p]
         IN  ( /\ c.op = "update" \/ (c.op = "add" /\ c.found # NULL)
               /\ Succeeded(c) /\ c.ret # NULL
               /\ Val(c.ret).dateStarted # NULL )
             => Val(Val(c.ret).dateStarted) <= c.at

C17_Witness ==
    \E p \in Procs :
        LET c == call[p]
        IN  /\ c.op = "update" /\ Succeeded(c) /\ Latest(c)
            /\ c.at = MaxTime
            /\ c.dateStarted = Some(MaxTime) /\ c.dateFinished = Some(MaxTime)
            /\ Val(c.ret) \in rows
            /\ Val(c.ret).dateStarted = Some(MaxTime)
            /\ \E old \in c.rows0 : old.id = c.bookId /\ old.dateStarted = Some(0)

\* C18: every addBookToUser, updateUserBook or deleteBookFromUser call that ends
\* in a rejection (validation failure, missing Book, missing association) leaves
\* both the association store and the Book store exactly as they were before
\* the call.
C18_RejectionChangesNothing ==
    \A p \in Procs :
        LET c == call[p]
        IN  (c.op \in {"add", "update", "delete"} /\ Refused(c) /\ Latest(c))
              => (rows = c.rows0 /\ books = c.books0)

C18_Witness ==
    \E p \in Procs :
        LET c == call[p]
        IN  /\ c.op = "update" /\ Refused(c) /\ Latest(c)
            /\ c.outcome = ErrModel
            /\ c.found # NULL
            /\ \E r \in c.rows0 : r.id = c.bookId /\ r.userNotes # c.userNotes
            /\ rows = c.rows0

\* C19: every client-side useMyFetch call eventually completes (returns the
\* parsed response, navigates to login after logout, or throws) for every
\* sequence of server responses: after a 401 it refreshes the access token and
\* retries, logs out when the refresh yields no token, and the number of
\* refresh-and-retry rounds within one call is bounded.
C19_EveryCallCompletes ==
    (fetchCall.client /\ fetchCall.pc \notin {"idle", "done"})
        ~> (fetchCall.pc = "done")

====
